---- MODULE Spec2Model ----
(***************************************************************************)
(* Model of caffe2/operators/concat_split_op.h: SplitOp, SplitByLengthsOp  *)
(* and ConcatOp.  A tensor is a record [dims, data, dtype]; data is the    *)
(* row-major buffer, one entry per element.  Each operator invocation      *)
(* (constructor + RunOnDevice) is one action.                              *)
(***************************************************************************)
EXTENDS Integers, Sequences, FiniteSets, TLC

\* ------------------------------------------------------------------ bounds
MaxRank == 2
MaxDim == 2
MaxOut == 2
MaxLens == 4

\* ------------------------------------------------------------- basic values
\* Marker for a buffer entry that was allocated but never written.
Uninit == 0 - 2
\* Marker for a value obtained by reading outside a buffer.
Garbage == 0 - 1
DTypes == {"float", "double"}

\* SplitOp::kSplitOpInputSize: the number of inputs when the sizes are an input.
kSplitOpInputSize == 2

itemsize(dtype) == IF dtype = "float" THEN 4 ELSE 8

RECURSIVE Prod(_)
Prod(s) == IF s = <<>> THEN 1 ELSE Head(s) * Prod(Tail(s))

RECURSIVE accumulate(_)
accumulate(s) == IF s = <<>> THEN 0 ELSE Head(s) + accumulate(Tail(s))

numel(dims) == Prod(dims)

\* A blob that no operator has written yet.
EmptyTensor == [dims |-> <<0>>, data |-> <<>>, dtype |-> "undefined"]

\* Element k (0-based) of input tensor number j carries a label of its own, so
\* that a copy can be traced to its origin: copies are type-erased bit copies.
Label(j, k) == 100 * j + k

MkTensor(j, dims, dtype) ==
    [dims |-> dims, data |-> [k \in 1..numel(dims) |-> Label(j, k - 1)], dtype |-> dtype]

\* Tensor::Resize followed by raw_mutable_data(dtype): the buffer is kept when
\* neither the shape nor the type changes, and is fresh storage otherwise.
Resize(t, dims, dtype) ==
    IF t.dims = dims /\ t.dtype = dtype
    THEN t
    ELSE [dims |-> dims, data |-> [k \in 1..numel(dims) |-> Uninit], dtype |-> dtype]

\* Read of element number idx (0-based) of a buffer; outside the buffer the
\* value is whatever lies there.
ReadAt(buf, idx) == IF idx >= 0 /\ idx < Len(buf) THEN buf[idx + 1] ELSE Garbage

\* math::CopyMatrix(itemsize, M, N, A + aoff, lda, B + boff, ldb): rows 0..M-1,
\* columns 0..N-1, B[boff + i*ldb + j] = A[aoff + i*lda + j].  Offsets and
\* strides are in elements here.
CopyMatrix(M, N, A, aoff, lda, B, boff, ldb) ==
    IF M <= 0 \/ N <= 0 THEN B
    ELSE [k \in 1..Len(B) |->
            LET rel == (k - 1) - boff
                i == rel \div ldb
                j == rel % ldb
            IN IF rel >= 0 /\ ldb > 0 /\ i < M /\ j < N
               THEN ReadAt(A, aoff + i * lda + j)
               ELSE B[k]]

\* --------------------------------------------------------------- arguments
\* The operator arguments "axis", "order" and "add_axis" of an OperatorDef.
GetDimFromOrderString_Swapped(str) == IF str = "NHWC" THEN 1 ELSE 3

GetDimFromOrderString(str) == IF str = "NHWC" THEN 3 ELSE 1

\* Constructor of SplitOp: the pair (axis_, add_axis_), or the failure of the
\* CAFFE_ENFORCE on the two axis forms.
SplitCtor(arg) ==
    IF arg.hasAxis /\ arg.hasOrder
    THEN [ok |-> FALSE, axis_ |-> 0, add_axis_ |-> FALSE]
    ELSE IF arg.hasAxis
         THEN [ok |-> TRUE, axis_ |-> arg.axis, add_axis_ |-> arg.add_axis]
         ELSE [ok |-> TRUE, axis_ |-> GetDimFromOrderString(arg.order), add_axis_ |-> FALSE]

\* Constructor of ConcatOp, which reads the same arguments.
ConcatCtor(arg) ==
    IF arg.hasAxis /\ arg.hasOrder
    THEN [ok |-> FALSE, axis_ |-> 0, add_axis_ |-> FALSE]
    ELSE IF arg.hasAxis
         THEN [ok |-> TRUE, axis_ |-> arg.axis, add_axis_ |-> arg.add_axis]
         ELSE [ok |-> TRUE, axis_ |-> GetDimFromOrderString(arg.order), add_axis_ |-> FALSE]

\* Constructor of SplitByLengthsOp: no add_axis argument is read.
LengthsCtor(arg) ==
    IF arg.hasAxis /\ arg.hasOrder
    THEN [ok |-> FALSE, axis_ |-> 0, add_axis_ |-> FALSE]
    ELSE IF arg.hasAxis
         THEN [ok |-> TRUE, axis_ |-> arg.axis, add_axis_ |-> FALSE]
         ELSE [ok |-> TRUE, axis_ |-> GetDimFromOrderString(arg.order), add_axis_ |-> FALSE]

\* canonical_axis_index_(axis_index, ndims): the index counted from the front.
canonical_axis_index_(axis_index, ndims) ==
    IF axis_index < 0 THEN axis_index + ndims ELSE axis_index

\* The helper's own range check: it throws when the canonical index is not a
\* dimension of a tensor of ndims dimensions.
HelperRejects(axis_index, ndims) ==
    LET canonical_axis == canonical_axis_index_(axis_index, ndims)
    IN canonical_axis < 0 \/ canonical_axis >= ndims

\* The operators' CAFFE_ENFORCE_LT(canonical_axis, ndims) after the helper.
AxisNotInRange(axis_index, ndims) ==
    HelperRejects(axis_index, ndims)
    \/ ~(canonical_axis_index_(axis_index, ndims) < ndims)

Advance_NoAfter(offset, axis_dim, after, isz) == offset + axis_dim * isz

\* The running byte offset after one more copy of axis_dim * after elements.
Advance(offset, axis_dim, after, isz) == offset + axis_dim * after * isz

\* Tensor::dim32(i): the extent of dimension i.  An index outside the shape is
\* not checked in a release build; g is what such a read produces, either a
\* stray value or DimFault (the debug build's enforce).
DimFault == 0 - 1

dim32(t, i, g) == IF i >= 0 /\ i < Len(t.dims) THEN t.dims[i + 1] ELSE g

HasNegative(dims) == \E k \in 1..Len(dims) : dims[k] < 0

\* Result of an invocation that threw before writing any blob.
Thrown(error, Y0) == [status |-> error, Y |-> Y0, copied |-> <<>>]

\* ------------------------------------------------------------------ SplitOp
\* The loop over the outputs, from output i on.  e carries the values computed
\* before the loop; e.neg says what Resize does with a negative extent.
RECURSIVE SplitLoop(_, _, _, _, _)
SplitLoop(i, e, Yc, input_offset, copied) ==
    IF ~(i < e.OutputSize)
    THEN [status |-> "OK", Y |-> Yc, copied |-> copied]
    ELSE
      LET axis_dim == IF e.add_axis_ THEN 1 ELSE e.axis_data[i + 1]
          output_dims == IF e.add_axis_ THEN e.output_dims
                         ELSE [e.output_dims EXCEPT ![e.canonical_axis + 1] = e.axis_data[i + 1]]
      IN IF HasNegative(output_dims) /\ e.neg = "fault"
         THEN [status |-> "ResizeFault", Y |-> Yc, copied |-> copied]
         ELSE
           LET output == Resize(Yc[i + 1], output_dims, e.input.dtype)
               written == CopyMatrix(e.before, axis_dim * e.after,
                                     e.input.data, input_offset \div itemsize(e.input.dtype),
                                     e.input_channels * e.after,
                                     output.data, 0, axis_dim * e.after)
           IN SplitLoop(i + 1, e, [Yc EXCEPT ![i + 1] = [output EXCEPT !.data = written]],
                        Advance(input_offset, axis_dim, e.after, itemsize(e.input.dtype)),
                        Append(copied, axis_dim))

\* before, after and output_dims, then the loop over the outputs.
SplitStart(input, add_axis_, canonical_axis, axis_data, OutputSize, Y0, neg) ==
    LET input_channels == input.dims[canonical_axis + 1]
    IN      SplitLoop(0,
              [input |-> input, add_axis_ |-> add_axis_, canonical_axis |-> canonical_axis,
               axis_data |-> axis_data, OutputSize |-> OutputSize,
               input_channels |-> input_channels,
               before |-> Prod(SubSeq(input.dims, 1, canonical_axis)),
               after |-> Prod(SubSeq(input.dims, canonical_axis + 2, Len(input.dims))),
               output_dims |-> IF add_axis_
                               THEN SubSeq(input.dims, 1, canonical_axis)
                                    \o SubSeq(input.dims, canonical_axis + 2, Len(input.dims))
                               ELSE input.dims,
               neg |-> neg],
              Y0, 0, <<>>)

SplitCopy_NoSumCheck(input, add_axis_, canonical_axis, axis_data, OutputSize, Y0, neg) ==
    SplitStart(input, add_axis_, canonical_axis, axis_data, OutputSize, Y0, neg)

\* The check of the sum of the extents, once axis_data is known, and the copies.
SplitCopy(input, add_axis_, canonical_axis, axis_data, OutputSize, Y0, neg) ==
    LET input_channels == input.dims[canonical_axis + 1]
        total == IF add_axis_ THEN OutputSize
                 ELSE accumulate(SubSeq(axis_data, 1, OutputSize))
    IN IF total # input_channels
       THEN Thrown("ShapeSumMismatch", Y0)
       ELSE SplitStart(input, add_axis_, canonical_axis, axis_data, OutputSize, Y0, neg)

\* SplitOp: constructor and RunOnDevice.  ratio is the optional second input
\* ([present, data]); Y0 holds the output blobs as they were before the call.
SplitOp(arg, input, split_, ratio, OutputSize, Y0, neg) ==
    LET c == SplitCtor(arg)
    IN IF ~c.ok THEN Thrown("ConflictingConfiguration", Y0)
       ELSE IF AxisNotInRange(c.axis_, Len(input.dims)) THEN Thrown("AxisOutOfRange", Y0)
       ELSE
         LET canonical_axis == canonical_axis_index_(c.axis_, Len(input.dims))
             input_channels == input.dims[canonical_axis + 1]
             InputSize == IF ratio.present THEN 2 ELSE 1
         IN IF InputSize = kSplitOpInputSize
            THEN IF Len(split_) # 0 THEN Thrown("ConflictingConfiguration", Y0)
                 ELSE IF Len(ratio.data) # OutputSize THEN Thrown("SizeMismatch", Y0)
                 ELSE SplitCopy(input, c.add_axis_, canonical_axis, ratio.data, OutputSize, Y0, neg)
            ELSE IF Len(split_) = 0
            THEN IF input_channels % OutputSize # 0 THEN Thrown("IndivisibleSplit", Y0)
                 ELSE SplitCopy(input, c.add_axis_, canonical_axis,
                                [k \in 1..OutputSize |-> input_channels \div OutputSize],
                                OutputSize, Y0, neg)
            ELSE IF Len(split_) # OutputSize THEN Thrown("SizeMismatch", Y0)
                 ELSE SplitCopy(input, c.add_axis_, canonical_axis, split_, OutputSize, Y0, neg)

\* --------------------------------------------------------- SplitByLengthsOp
GroupExtent_Unscaled(axis_data, group, i) ==
    accumulate(SubSeq(axis_data, i + 1, i + group))

\* The extent of output i: the sum of its run of length_length / OutputSize
\* entries of the lengths.
GroupExtent(axis_data, group, i) ==
    accumulate(SubSeq(axis_data, group * i + 1, group * i + group))

RECURSIVE LengthsLoop(_, _, _, _, _)
LengthsLoop(i, e, Yc, input_offset, copied) ==
    IF ~(i < e.OutputSize)
    THEN [status |-> "OK", Y |-> Yc, copied |-> copied]
    ELSE
      LET group == e.length_length \div e.OutputSize
          axis_dim == GroupExtent(e.axis_data, group, i)
          output_dims == [e.output_dims EXCEPT ![e.canonical_axis + 1] = axis_dim]
      IN IF HasNegative(output_dims) /\ e.neg = "fault"
         THEN [status |-> "ResizeFault", Y |-> Yc, copied |-> copied]
         ELSE
           LET output == Resize(Yc[i + 1], output_dims, e.input.dtype)
               written == CopyMatrix(e.before, axis_dim * e.after,
                                     e.input.data, input_offset \div itemsize(e.input.dtype),
                                     e.input_channels * e.after,
                                     output.data, 0, axis_dim * e.after)
           IN LengthsLoop(i + 1, e, [Yc EXCEPT ![i + 1] = [output EXCEPT !.data = written]],
                          Advance(input_offset, axis_dim, e.after, itemsize(e.input.dtype)),
                          Append(copied, axis_dim))

SplitByLengthsOp(arg, input, length, OutputSize, Y0, neg) ==
    LET c == LengthsCtor(arg)
        length_length == Len(length)
    IN IF ~c.ok THEN Thrown("ConflictingConfiguration", Y0)
       ELSE IF length_length % OutputSize # 0 THEN Thrown("SizeMismatch", Y0)
       ELSE IF AxisNotInRange(c.axis_, Len(input.dims)) THEN Thrown("AxisOutOfRange", Y0)
       ELSE
         LET canonical_axis == canonical_axis_index_(c.axis_, Len(input.dims))
             input_channels == input.dims[canonical_axis + 1]
         IN IF accumulate(length) # input_channels
            THEN Thrown("ShapeSumMismatch", Y0)
            ELSE LengthsLoop(0,
                   [input |-> input, canonical_axis |-> canonical_axis,
                    axis_data |-> length, length_length |-> length_length,
                    OutputSize |-> OutputSize, input_channels |-> input_channels,
                    before |-> Prod(SubSeq(input.dims, 1, canonical_axis)),
                    after |-> Prod(SubSeq(input.dims, canonical_axis + 2, Len(input.dims))),
                    output_dims |-> input.dims, neg |-> neg],
                   Y0, 0, <<>>)

\* ----------------------------------------------------------------- ConcatOp
\* The dimensions of input 0 that the compatibility loop looks at.
ComparedDims(input_zero, canonical_axis, add_axis_) ==
    {i \in 0..(Len(input_zero.dims) - 1) : ~(i = canonical_axis /\ ~add_axis_)}

\* The (dimension, input) pairs, 0-based, at which the loop stops: the extent
\* read from input j differs from input 0's (a faulting read differs from all).
Conflicts(inputs, canonical_axis, add_axis_, g) ==
    {p \in ComparedDims(inputs[1], canonical_axis, add_axis_) \X (1..(Len(inputs) - 1)) :
        dim32(inputs[p[2] + 1], p[1], g) # dim32(inputs[1], p[1], g)}

\* The loop runs over the dimensions, and for each over the inputs.
FirstConflict(S) ==
    CHOOSE p \in S : \A q \in S : p[1] < q[1] \/ (p[1] = q[1] /\ p[2] <= q[2])

\* The two loops that follow the checks: axis_data and output_channels, then
\* the copies of the inputs into the output.
RECURSIVE ConcatLoop(_, _, _, _)
ConcatLoop(i, e, out, output_offset) ==
    IF ~(i < Len(e.inputs))
    THEN out
    ELSE
      LET input == e.inputs[i + 1]
          axis_dim == IF e.add_axis_ THEN 1 ELSE dim32(input, e.canonical_axis, e.g)
      IN ConcatLoop(i + 1, e,
            CopyMatrix(e.before, axis_dim * e.after, input.data, 0, axis_dim * e.after,
                       out, output_offset \div itemsize(e.inputs[1].dtype),
                       e.output_channels * e.after),
            Advance(output_offset, axis_dim, e.after, itemsize(input.dtype)))

ConcatCopy(inputs, add_axis_, canonical_axis, Z0, split1, g) ==
    LET input_zero == inputs[1]
        InputSize == Len(inputs)
        axis_data == [k \in 1..InputSize |->
                        IF add_axis_ THEN 1 ELSE dim32(inputs[k], canonical_axis, g)]
        faulty == {k \in 1..InputSize : axis_data[k] = DimFault}
    IN IF faulty # {}
       THEN \* the read of the extent faults after the earlier entries were stored
            LET k0 == CHOOSE k \in faulty : \A m \in faulty : k <= m
            IN [status |-> "DimIndexFault", Z |-> Z0,
                split |-> [split1 EXCEPT !.data =
                              [k \in 1..InputSize |-> IF k < k0 THEN axis_data[k]
                                                      ELSE split1.data[k]]],
                copied |-> <<>>]
       ELSE
         LET output_channels == accumulate(axis_data)
             before == Prod(SubSeq(input_zero.dims, 1, canonical_axis))
             after == IF add_axis_
                      THEN Prod(SubSeq(input_zero.dims, canonical_axis + 1, Len(input_zero.dims)))
                      ELSE Prod(SubSeq(input_zero.dims, canonical_axis + 2, Len(input_zero.dims)))
             output_dims == IF add_axis_
                            THEN SubSeq(input_zero.dims, 1, canonical_axis)
                                 \o <<output_channels>>
                                 \o SubSeq(input_zero.dims, canonical_axis + 1, Len(input_zero.dims))
                            ELSE [input_zero.dims EXCEPT ![canonical_axis + 1] = output_channels]
             output == Resize(Z0, output_dims, input_zero.dtype)
         IN [status |-> "OK",
             Z |-> [output EXCEPT !.data =
                       ConcatLoop(0, [inputs |-> inputs, add_axis_ |-> add_axis_,
                                      canonical_axis |-> canonical_axis, g |-> g,
                                      before |-> before, after |-> after,
                                      output_channels |-> output_channels],
                                  output.data, 0)],
             split |-> [split1 EXCEPT !.data = axis_data],
             copied |-> axis_data]

adj_size_NoAddAxis(ndim, add_axis_) == ndim

\* The number of dimensions the axis of a concat is resolved against.
adj_size(ndim, add_axis_) == ndim + (IF add_axis_ THEN 1 ELSE 0)

\* ConcatOp: constructor and RunOnDevice.  Z0 and split0 are the two output
\* blobs as they were before the call; g is what an unchecked dim32 yields.
ConcatOp(arg, inputs, Z0, split0, g) ==
    LET c == ConcatCtor(arg)
        InputSize == Len(inputs)
        input_zero == inputs[1]
        split1 == Resize(split0, <<InputSize>>, "int")
        adj == adj_size(Len(input_zero.dims), c.add_axis_)
        canonical_axis == canonical_axis_index_(c.axis_, adj)
        Stop(error) == [status |-> error, Z |-> Z0, split |-> split1, copied |-> <<>>]
    IN IF ~c.ok
       THEN [status |-> "ConflictingConfiguration", Z |-> Z0, split |-> split0, copied |-> <<>>]
       ELSE IF AxisNotInRange(c.axis_, adj) THEN Stop("AxisOutOfRange")
       ELSE IF \E i \in 2..InputSize : inputs[i].dtype # input_zero.dtype
       THEN Stop("TypeMismatch")
       ELSE
         LET bad == Conflicts(inputs, canonical_axis, c.add_axis_, g)
         IN IF bad # {}
            THEN LET p == FirstConflict(bad)
                 IN IF dim32(inputs[p[2] + 1], p[1], g) = DimFault
                    THEN Stop("DimIndexFault")
                    ELSE Stop("ShapeMismatch")
            ELSE ConcatCopy(inputs, c.add_axis_, canonical_axis, Z0, split1, g)

\* ------------------------------------------------------------------- inputs
Extents == 0..MaxDim

Shapes == UNION {[1..r -> 1..MaxDim] : r \in 0..MaxRank}

AxisValues == (0 - (MaxRank + 2))..(MaxRank + 1)

AxisArg(a, add) ==
    [hasAxis |-> TRUE, hasOrder |-> FALSE, axis |-> a, order |-> "NCHW", add_axis |-> add]

\* The argument sets an OperatorDef can carry: "axis" alone, "order" alone,
\* neither (the order defaults to NCHW), or both.
Args ==
    {AxisArg(a, add) : a \in AxisValues, add \in BOOLEAN}
    \cup [hasAxis : {FALSE}, hasOrder : {TRUE}, axis : {0}, order : {"NCHW", "NHWC"},
          add_axis : BOOLEAN]
    \cup [hasAxis : {FALSE}, hasOrder : {FALSE}, axis : {0}, order : {"NCHW"},
          add_axis : BOOLEAN]
    \cup [hasAxis : {TRUE}, hasOrder : {TRUE}, axis : {0}, order : {"NCHW"},
          add_axis : {FALSE}]

NoAux == [present |-> FALSE, data |-> <<>>]
Aux(s) == [present |-> TRUE, data |-> s]

\* Explicit sizes, ratio tensors and lengths are arbitrary ints.
SplitVals == (0 - 1)..3
SizeLists == UNION {[1..n -> SplitVals] : n \in 0..MaxOut}
LenVals == (0 - 1)..2
LenLists == UNION {[1..n -> LenVals] : n \in 0..MaxLens}

\* Shapes with one distinguished axis of extent e, with or without dimensions
\* before and after it; the axis is given from the front or from the end.
Sides == {<<>>, <<2>>}
Slicings ==
    UNION {{[dims |-> pre \o <<e>> \o post, axis |-> Len(pre)],
            [dims |-> pre \o <<e>> \o post, axis |-> 0 - (Len(post) + 1)]} :
           pre \in Sides, post \in Sides, e \in Extents}

\* The other inputs of a concat: input 0's shape, that shape with one extent
\* changed, with its last dimension dropped, or with a dimension appended.
Variants(d) ==
    {d} \cup {[d EXCEPT ![k] = (d[k] + 1) % (MaxDim + 1)] : k \in 1..Len(d)}
        \cup {SubSeq(d, 1, Len(d) - 1)} \cup {d \o <<2>>}

\* What dim32 can yield for an index outside the shape.
StrayDims == Extents \cup {DimFault}

\* -------------------------------------------------------------------- state
VARIABLES
    call,     \* the last invocation: operator, arguments and input blobs
    prev,     \* the invocation before it, when the last one ran on its outputs
    Y,        \* the output blobs of SplitOp and SplitByLengthsOp
    Z,        \* output 0 of ConcatOp
    split,    \* output 1 of ConcatOp, the extent of each input along the axis
    status,   \* how the last invocation ended: "OK" or the error thrown
    copied    \* axis_dim of every CopyMatrix call the last invocation made

vars == <<call, prev, Y, Z, split, status, copied>>

NoCall ==
    [op |-> "none", arg |-> AxisArg(0, FALSE), X |-> <<>>, split_ |-> <<>>,
     aux |-> NoAux, OutputSize |-> 0]

Init ==
    /\ call = NoCall
    /\ prev = NoCall
    /\ Y = [i \in 1..MaxOut |-> EmptyTensor]
    /\ Z = EmptyTensor
    /\ split = EmptyTensor
    /\ status = "none"
    /\ copied = <<>>

\* One run of SplitOp on input X with the given arguments.
DoSplit(arg, X, split_, ratio, OutputSize, neg) ==
    LET r == SplitOp(arg, X, split_, ratio, OutputSize, Y, neg)
    IN /\ call' = [op |-> "Split", arg |-> arg, X |-> <<X>>, split_ |-> split_,
                   aux |-> ratio, OutputSize |-> OutputSize]
       /\ Y' = r.Y
       /\ status' = r.status
       /\ copied' = r.copied
       /\ UNCHANGED <<Z, split>>

DoSplitByLengths(arg, X, length, OutputSize, neg) ==
    LET r == SplitByLengthsOp(arg, X, length, OutputSize, Y, neg)
    IN /\ call' = [op |-> "SplitByLengths", arg |-> arg, X |-> <<X>>, split_ |-> <<>>,
                   aux |-> Aux(length), OutputSize |-> OutputSize]
       /\ Y' = r.Y
       /\ status' = r.status
       /\ copied' = r.copied
       /\ UNCHANGED <<Z, split>>

DoConcat(arg, inputs, g) ==
    LET r == ConcatOp(arg, inputs, Z, split, g)
    IN /\ call' = [op |-> "Concat", arg |-> arg, X |-> inputs, split_ |-> <<>>,
                   aux |-> NoAux, OutputSize |-> 2]
       /\ Z' = r.Z
       /\ split' = r.split
       /\ status' = r.status
       /\ copied' = r.copied
       /\ UNCHANGED Y

\* The three forms of a partition: the "split" argument, the ratio tensor, both.
Forms ==
    {[split_ |-> s, aux |-> NoAux] : s \in SizeLists}
    \cup {[split_ |-> <<>>, aux |-> Aux(s)] : s \in SizeLists}
    \cup {[split_ |-> <<1>>, aux |-> Aux(s)] : s \in {<<>>, <<1>>, <<1, 1>>}}

\* SplitOp on a fresh input: any arguments with an equal split, or an axis of
\* the input with any partition.
Split ==
    /\ call.op = "none"
    /\ prev' = NoCall
    /\ \E OutputSize \in 1..MaxOut, neg \in {"fault", "proceed"} :
        \/ \E arg \in Args, d \in Shapes :
              DoSplit(arg, MkTensor(0, d, "float"), <<>>, NoAux, OutputSize, neg)
        \/ \E s \in Slicings, f \in Forms :
              DoSplit(AxisArg(s.axis, FALSE), MkTensor(0, s.dims, "float"),
                      f.split_, f.aux, OutputSize, neg)

SplitByLengths ==
    /\ call.op = "none"
    /\ prev' = NoCall
    /\ \E OutputSize \in 1..MaxOut, neg \in {"fault", "proceed"} :
        \/ \E arg \in Args, d \in Shapes :
              DoSplitByLengths(arg, MkTensor(0, d, "float"),
                               [k \in 1..OutputSize |-> 1], OutputSize, neg)
        \/ \E s \in {t \in Slicings : t.axis >= 0 /\ Len(t.dims) # 2}, length \in LenLists :
              DoSplitByLengths(AxisArg(s.axis, FALSE), MkTensor(0, s.dims, "float"),
                               length, OutputSize, neg)

\* ConcatOp on fresh inputs: any arguments with inputs of one shape, or an
\* axis argument with inputs of various shapes and types.
Concat ==
    /\ call.op = "none"
    /\ prev' = NoCall
    /\ \E InputSize \in 1..MaxOut, d \in Shapes, g \in StrayDims :
        \/ \E arg \in Args :
              DoConcat(arg, [j \in 1..InputSize |-> MkTensor(j - 1, d, "float")], g)
        \/ \E a \in 0..MaxRank, add \in BOOLEAN,
              ds \in [1..InputSize -> Variants(d)], last \in DTypes :
              /\ ds[1] = d
              /\ DoConcat(AxisArg(a, add),
                          [j \in 1..InputSize |->
                              MkTensor(j - 1, ds[j],
                                       IF j = InputSize THEN last ELSE "float")], g)

\* The arguments of an operator that undoes another: the same ones, and some
\* near ones.
ChainArgs(arg) ==
    {arg, [arg EXCEPT !.add_axis = ~@], [arg EXCEPT !.axis = @ + 1]}

\* ConcatOp on the outputs of the split that just succeeded, when these are
\* tensors (no extent is negative).
ConcatOfSplit ==
    /\ call.op \in {"Split", "SplitByLengths"}
    /\ prev.op = "none"
    /\ status = "OK"
    /\ \A i \in 1..call.OutputSize : ~HasNegative(Y[i].dims)
    /\ prev' = call
    /\ \E arg \in ChainArgs(call.arg), g \in StrayDims :
          DoConcat(arg, SubSeq(Y, 1, call.OutputSize), g)

\* SplitOp on the output of the concat that just succeeded, the partition being
\* absent or taken from the concat's second output.
SplitOfConcat ==
    /\ call.op = "Concat"
    /\ prev.op = "none"
    /\ status = "OK"
    /\ prev' = call
    /\ \E arg \in ChainArgs(call.arg), OutputSize \in {Len(call.X)},
          f \in {[split_ |-> split.data, aux |-> NoAux],
                 [split_ |-> <<>>, aux |-> Aux(split.data)],
                 [split_ |-> <<>>, aux |-> NoAux]},
          neg \in {"fault", "proceed"} :
          DoSplit(arg, Z, f.split_, f.aux, OutputSize, neg)

Next == Split \/ SplitByLengths \/ Concat \/ ConcatOfSplit \/ SplitOfConcat

Spec == Init /\ [][Next]_vars

\* ------------------------------------------------------- reading the state
\* The last invocation's first input, its number of dimensions, the raw axis
\* its arguments select and whether they ask for add_axis.
X0 == call.X[1]
Rank0 == Len(X0.dims)
ArgsConflict(c) == c.arg.hasAxis /\ c.arg.hasOrder
RawAxis(c) == IF c.arg.hasAxis THEN c.arg.axis
              ELSE IF c.arg.order = "NHWC" THEN 3 ELSE 1
AddAxis(c) == c.arg.hasAxis /\ c.arg.add_axis /\ c.op # "SplitByLengths"
\* The index from the front of raw axis a among n dimensions.
FromFront(a, n) == IF a >= 0 THEN a ELSE n + a
\* The dimension along which a split call cuts its input, when it has one.
SplitAxis(c) == FromFront(RawAxis(c), Len(c.X[1].dims))
SplitAxisValid(c) == SplitAxis(c) \in 0..(Len(c.X[1].dims) - 1)
AxisExtent(c) == c.X[1].dims[SplitAxis(c) + 1]
NonNegative(s) == \A k \in 1..Len(s) : s[k] >= 0
Replace(dims, ax, v) == [k \in 1..Len(dims) |-> IF k = ax + 1 THEN v ELSE dims[k]]

\* A split call whose partition is well-formed: not both forms, and as many
\* sizes as outputs.
GivenSizes(c) == IF c.aux.present THEN c.aux.data ELSE c.split_
ImplicitEqual(c) == ~c.aux.present /\ c.split_ = <<>>
WellFormed(c) ==
    /\ ~(c.aux.present /\ c.split_ # <<>>)
    /\ ~ImplicitEqual(c) => Len(GivenSizes(c)) = c.OutputSize
\* The extents the spec assigns to the outputs of a split without add_axis.
SpecExtents(c) ==
    IF ImplicitEqual(c)
    THEN [k \in 1..c.OutputSize |-> AxisExtent(c) \div c.OutputSize]
    ELSE GivenSizes(c)

\* The elements of tensor t whose coordinate along dimension ax lies in
\* lo..hi-1, in row-major order.
Slice(t, ax, lo, hi) ==
    LET after == Prod(SubSeq(t.dims, ax + 2, Len(t.dims)))
        extent == t.dims[ax + 1]
        coord(k) == ((k - 1) \div after) % extent
        keep == SelectSeq([k \in 1..Len(t.data) |-> k], LAMBDA k : coord(k) >= lo /\ coord(k) < hi)
    IN [n \in 1..Len(keep) |-> t.data[keep[n]]]

\* --------------------------------------------------------------- properties
\* C2: a split without add_axis takes as extents the explicit sizes, the ratio
\* tensor's values, or axis-extent / outputCount each; the equal split throws
\* IndivisibleSplit exactly when the axis-extent is not a multiple of the
\* number of outputs; the call throws ShapeSumMismatch when the extents do not
\* sum to the axis-extent; on success output i has the input's shape with the
\* axis-extent replaced by extent i, and these extents sum to the axis-extent.
C2_SplitExtents ==
    (/\ call.op = "Split" /\ ~ArgsConflict(call) /\ ~AddAxis(call)
     /\ SplitAxisValid(call) /\ WellFormed(call))
    => LET N == call.OutputSize
           E == AxisExtent(call)
           indivisible == ImplicitEqual(call) /\ E % N # 0
       IN /\ (status = "IndivisibleSplit") <=> indivisible
          /\ (~indivisible /\ accumulate(SpecExtents(call)) # E)
                => status = "ShapeSumMismatch"
          /\ status = "ShapeSumMismatch" => accumulate(SpecExtents(call)) # E
          /\ status = "OK" =>
                /\ \A i \in 1..N :
                      Y[i].dims = Replace(X0.dims, SplitAxis(call), SpecExtents(call)[i])
                /\ accumulate([i \in 1..N |-> Y[i].dims[SplitAxis(call) + 1]]) = E

\* A split into two outputs of different extents, from explicit sizes.
C2_Witness ==
    /\ call.op = "Split" /\ status = "OK" /\ ~AddAxis(call)
    /\ call.OutputSize = 2 /\ call.split_ # <<>>
    /\ Y[1].dims # Y[2].dims /\ Rank0 = 3

\* C6: splitByLengths throws SizeMismatch exactly when lengths.count is not a
\* multiple of the number of outputs, and ShapeSumMismatch when the lengths do
\* not sum to the axis-extent; on success output i has as axis-extent the sum
\* of its group of lengths.count / outputCount lengths and, the lengths being
\* non-negative, holds the slice of the input that starts at the sum of the
\* lengths before its group.
C6_SplitByLengths ==
    (call.op = "SplitByLengths" /\ ~ArgsConflict(call))
    => LET N == call.OutputSize
           lengths == call.aux.data
           groupSize == Len(lengths) \div N
           start(i) == accumulate(SubSeq(lengths, 1, (i - 1) * groupSize))
           extent(i) == accumulate(SubSeq(lengths, (i - 1) * groupSize + 1, i * groupSize))
       IN /\ (status = "SizeMismatch") <=> (Len(lengths) % N # 0)
          /\ (Len(lengths) % N = 0 /\ SplitAxisValid(call))
                => ((status = "ShapeSumMismatch") <=> (accumulate(lengths) # AxisExtent(call)))
          /\ status = "OK" =>
                \A i \in 1..N :
                   /\ Y[i].dims = Replace(X0.dims, SplitAxis(call), extent(i))
                   /\ NonNegative(lengths) =>
                         Y[i].data = Slice(X0, SplitAxis(call), start(i), start(i) + extent(i))

\* Four lengths grouped two by two into two non-empty outputs, the input
\* having dimensions before and after the axis.
C6_Witness ==
    /\ call.op = "SplitByLengths" /\ status = "OK"
    /\ call.OutputSize = 2 /\ Len(call.aux.data) = 4 /\ NonNegative(call.aux.data)
    /\ call.aux.data[1] # call.aux.data[2]
    /\ Rank0 = 3 /\ Len(Y[1].data) > 0 /\ Len(Y[2].data) > 0

\* C10: every copy of a split or splitByLengths reads inside the input: each
\* extent copied is >= 0 and the extents copied so far sum to at most the
\* input's axis-extent, whatever integers the sizes or lengths are.
C10_ReadsInsideInput ==
    (call.op \in {"Split", "SplitByLengths"})
    => \A i \in 1..Len(copied) :
          /\ copied[i] >= 0
          /\ accumulate(SubSeq(copied, 1, i)) <= AxisExtent(call)

\* Two int tensors with the same elements.
SameTensor(t, u) == t.dims = u.dims /\ t.data = u.data /\ t.dtype = u.dtype

\* C1: a split without add_axis followed by a concat without add_axis along
\* the same axis, of the split's outputs in order, gives back the input: same
\* shape, same element everywhere.  The extents of the partition are those of
\* tensors, hence non-negative, and sum to the axis-extent (the split succeeded).
C1_RoundTrip ==
    (/\ call.op = "Concat" /\ prev.op = "Split"
     /\ ~AddAxis(prev) /\ call.arg = prev.arg
     /\ NonNegative(SpecExtents(prev)))
    => /\ status = "OK"
       /\ SameTensor(Z, prev.X[1])

\* A round trip of a three-dimensional tensor cut along its middle axis, given
\* from the end, into two non-empty parts of different extents.
C1_Witness ==
    /\ call.op = "Concat" /\ prev.op = "Split" /\ status = "OK"
    /\ ~AddAxis(prev) /\ call.arg = prev.arg /\ prev.arg.axis < 0
    /\ Len(prev.X[1].dims) = 3 /\ prev.OutputSize = 2
    /\ Len(call.X[1].data) > 0 /\ Len(call.X[2].data) > 0
    /\ SameTensor(Z, prev.X[1])

\* C5: a concat with add_axis of N inputs of one shape of rank r, along a raw
\* axis of the rank-extended space (0..r or -(r+1)..-1), succeeds with an
\* output of rank r+1 whose new axis has extent N and with the record
\* [1,...,1]; the split with add_axis of that output along the same raw axis
\* into N outputs, the record being its sizes, succeeds and its outputs are
\* the inputs of the concat, in order.
C5_AddAxisRoundTrip ==
    LET c == IF call.op = "Concat" THEN call ELSE prev
        N == Len(c.X)
        r == Len(c.X[1].dims)
        same == \A j \in 1..N : c.X[j].dims = c.X[1].dims /\ c.X[j].dtype = c.X[1].dtype
        ax == FromFront(c.arg.axis, r + 1)
    IN /\ (/\ call.op = "Concat" /\ same /\ ~ArgsConflict(call) /\ AddAxis(call)
           /\ call.arg.axis \in (0 - (r + 1))..r)
          => /\ status = "OK"
             /\ Len(Z.dims) = r + 1
             /\ Z.dims[ax + 1] = N
             /\ split.dims = <<N>> /\ split.data = [k \in 1..N |-> 1]
       /\ (/\ call.op = "Split" /\ prev.op = "Concat" /\ same /\ AddAxis(prev)
           /\ call.arg = prev.arg /\ call.OutputSize = N
           /\ GivenSizes(call) = split.data)
          => /\ status = "OK"
             /\ \A j \in 1..N : SameTensor(Y[j], prev.X[j])

\* Two inputs of shape [2,2] joined along a new middle axis, given from the
\* end, and taken apart again with the record as the ratio tensor.
C5_Witness ==
    /\ call.op = "Split" /\ prev.op = "Concat" /\ status = "OK"
    /\ AddAxis(prev) /\ call.arg = prev.arg /\ prev.arg.axis = 0 - 2
    /\ Len(prev.X) = 2 /\ prev.X[1].dims = <<2, 2>> /\ prev.X[2].dims = <<2, 2>>
    /\ call.aux.present /\ call.aux.data = <<1, 1>>
    /\ Z.dims = <<2, 2, 2>>
    /\ SameTensor(Y[1], prev.X[1]) /\ SameTensor(Y[2], prev.X[2])

\* The axis of a concat call counted from the front of the rank-extended space.
ConcatRank(c) == Len(c.X[1].dims) + (IF AddAxis(c) THEN 1 ELSE 0)
ConcatAxis(c) == FromFront(RawAxis(c), ConcatRank(c))
ConcatAxisValid(c) == ConcatAxis(c) \in 0..(ConcatRank(c) - 1)
SameTypes(c) == \A j \in 1..Len(c.X) : c.X[j].dtype = c.X[1].dtype
Insert(dims, ax, v) == SubSeq(dims, 1, ax) \o <<v>> \o SubSeq(dims, ax + 1, Len(dims))
\* Input j has input 0's extent at dimension i (0-based).
Agrees(c, j, i) == i < Len(c.X[j].dims) /\ c.X[j].dims[i + 1] = c.X[1].dims[i + 1]

\* C3: after a successful concat of N inputs the record has N entries, entry i
\* being 1 under add_axis and input i's extent at the canonical axis otherwise;
\* the output's extent at the canonical axis is the sum of the record; the
\* output's shape is input 0's with that extent replaced by the sum or, under
\* add_axis, with a new axis of that extent inserted at the canonical position.
C3_ConcatRecord ==
    (call.op = "Concat" /\ status = "OK")
    => LET N == Len(call.X)
           ax == ConcatAxis(call)
       IN /\ split.dims = <<N>> /\ Len(split.data) = N
          /\ \A i \in 1..N :
                IF AddAxis(call) THEN split.data[i] = 1
                ELSE /\ ax < Len(call.X[i].dims)
                     /\ split.data[i] = call.X[i].dims[ax + 1]
          /\ Z.dims[ax + 1] = accumulate(split.data)
          /\ Z.dims = IF AddAxis(call)
                      THEN Insert(X0.dims, ax, accumulate(split.data))
                      ELSE Replace(X0.dims, ax, accumulate(split.data))

\* C4: a concat whose axis and types are in order throws ShapeMismatch when
\* some input does not have input 0's extent at a dimension of input 0 other
\* than the canonical axis (at any dimension of input 0 under add_axis), and
\* accepts inputs that differ from input 0 at the canonical axis only.
C4_ShapeMismatch ==
    (/\ call.op = "Concat" /\ ~ArgsConflict(call)
     /\ ConcatAxisValid(call) /\ SameTypes(call))
    => LET N == Len(call.X)
           ax == ConcatAxis(call)
           compared == {i \in 0..(Rank0 - 1) : AddAxis(call) \/ i # ax}
       IN /\ (\E j \in 2..N, i \in compared : ~Agrees(call, j, i))
                => status = "ShapeMismatch"
          /\ (/\ ~AddAxis(call)
              /\ \A j \in 2..N : /\ Len(call.X[j].dims) = Rank0
                                 /\ \A i \in compared : Agrees(call, j, i))
                => status = "OK"

\* C9: after a successful concat every input has input 0's number of
\* dimensions, the output has as many elements as the inputs together, and
\* every element of the output is the copy of one element of one input.
C9_ConcatCoversInputs ==
    (call.op = "Concat" /\ status = "OK")
    => LET N == Len(call.X)
           all == UNION {{call.X[j].data[k] : k \in 1..Len(call.X[j].data)} : j \in 1..N}
       IN /\ \A j \in 1..N : Len(call.X[j].dims) = Rank0
          /\ Len(Z.data) = accumulate([j \in 1..N |-> Len(call.X[j].data)])
          /\ {Z.data[k] : k \in 1..Len(Z.data)} = all
          /\ Cardinality(all) = Len(Z.data)

\* C8: an invocation that throws one of the listed errors leaves every output
\* blob, the record of the concat included, as it was before the invocation.
ListedErrors ==
    {"AxisOutOfRange", "SizeMismatch", "IndivisibleSplit", "ShapeSumMismatch",
     "ConflictingConfiguration", "TypeMismatch", "ShapeMismatch"}

C8_NoPartialOutput ==
    [][status' \in ListedErrors => (Y' = Y /\ Z' = Z /\ split' = split)]_vars

At(s, k) == IF k \in 1..Len(s) THEN s[k] ELSE 0 - 1
Remove(dims, ax) == SubSeq(dims, 1, ax) \o SubSeq(dims, ax + 2, Len(dims))
\* A splitByLengths call checks the number of lengths before it resolves the axis.
CountMismatch(c) ==
    c.op = "SplitByLengths" /\ Len(c.aux.data) % c.OutputSize # 0
\* The shapes of the outputs differ from the input's at dimension ax only.
CutsAt(c, ax) ==
    IF c.op = "Concat"
    THEN Z.dims = IF AddAxis(c) THEN Insert(c.X[1].dims, ax, Len(c.X))
                  ELSE Replace(c.X[1].dims, ax, At(Z.dims, ax + 1))
    ELSE \A i \in 1..c.OutputSize :
            Y[i].dims = IF AddAxis(c) THEN Remove(c.X[1].dims, ax)
                        ELSE Replace(c.X[1].dims, ax, At(Y[i].dims, ax + 1))

\* C7 as stated: in every engine the invocation throws AxisOutOfRange exactly
\* when the canonical axis (the raw axis, or the raw axis counted from the end
\* when negative; 1 and 3 for the named orders) is not in [0, effectiveRank),
\* effectiveRank being the rank, plus one in add-axis mode, split included.
C7_AsStated ==
    (call.op # "none" /\ ~ArgsConflict(call) /\ ~CountMismatch(call))
    => LET n == Rank0 + (IF AddAxis(call) THEN 1 ELSE 0)
           ax == FromFront(RawAxis(call), n)
       IN (status = "AxisOutOfRange") <=> ~(ax \in 0..(n - 1))

\* C7 amended: the rank the axis is resolved against is input 0's rank plus
\* one for a concat in add-axis mode, and the input's own rank for a split or
\* splitByLengths, add-axis mode included.  The invocation throws
\* AxisOutOfRange exactly when the canonical axis is not in [0, that rank),
\* and on success the outputs' shapes differ from the input's at the canonical
\* axis alone.
C7_AxisResolution ==
    (call.op # "none" /\ ~ArgsConflict(call) /\ ~CountMismatch(call))
    => LET n == Rank0 + (IF call.op = "Concat" /\ AddAxis(call) THEN 1 ELSE 0)
           ax == FromFront(RawAxis(call), n)
       IN /\ (status = "AxisOutOfRange") <=> ~(ax \in 0..(n - 1))
          /\ status = "OK" => CutsAt(call, ax)

\* A split in add-axis mode whose raw axis equals the input's rank is refused.
C7_Witness ==
    /\ call.op = "Split" /\ AddAxis(call) /\ Rank0 = 2
    /\ call.arg.axis = Rank0 /\ status = "AxisOutOfRange"

====
